---- MODULE Spec2Model ----
(***************************************************************************)
(* Gesture controller of the particle tree (GestureController.tsx): the    *)
(* asynchronous initialisation of camera and hand landmarker, the          *)
(* requestAnimationFrame detection loop predictWebcam, the open/closed     *)
(* classifier and the dwell timer that drives the application state.       *)
(*                                                                         *)
(* Units: landmark coordinates are in hundredths of the normalised image   *)
(* space (0.35 is 35); timestamps are milliseconds counted from an         *)
(* arbitrary positive origin, so Date.now() is never 0.                    *)
(*                                                                         *)
(* Particle engine (ChristmasParticles): the particle store, the font      *)
(* callback that assigns the text points and the useFrame callback.  World *)
(* coordinates are integers, Unit to one world unit; frame deltas are in   *)
(* tenths of a second.  The rotation and the scale of the written          *)
(* transform are not part of the model, only its position is.              *)
(***************************************************************************)
EXTENDS Integers, Sequences, FiniteSets, TLC

\* ---------------------------------------------------------------- bounds
\* Number of predictWebcam calls explored.
MaxTicks == 5

\* ------------------------------------------------------------- constants
OPEN_THRESHOLD == 35
CLOSE_THRESHOLD == 25
DWELL_MS == 5000
\* landmarks[0] in the source; sequences are 1-based here.
WRIST == 0
TIPS == <<8, 12, 16, 20>>
\* Length of a well-formed landmark list.
LANDMARK_COUNT == 21

SCATTERED == "SCATTERED"
TREE_SHAPE == "TREE_SHAPE"
TEXT_SHAPE == "TEXT_SHAPE"
AppState == {SCATTERED, TREE_SHAPE, TEXT_SHAPE}

\* Increments of Date.now() between two calls of predictWebcam.
Deltas == {1, 4999}

\* ------------------------------------------------------ landmark inputs
Pt(x, y, z) == [x |-> x, y |-> y, z |-> z]

\* A landmark list of n points: wrist w, fingertips t[1..4] at the indices
\* of TIPS, every other joint at the wrist.
MkHand(n, w, t) ==
  [i \in 1..n |->
     IF i = TIPS[1] + 1 THEN t[1]
     ELSE IF i = TIPS[2] + 1 THEN t[2]
     ELSE IF i = TIPS[3] + 1 THEN t[3]
     ELSE IF i = TIPS[4] + 1 THEN t[4]
     ELSE w]

Origin == Pt(0, 0, 0)
\* Points at distance 20, 21, 25, 30, 35, 40 from the origin.
P20 == Pt(12, 16, 0)
P21 == Pt(0, 0, 21)
P25 == Pt(12, 16, 15)
P30 == Pt(18, 0, 24)
P35 == Pt(0, 21, 28)
P40 == Pt(24, 32, 0)

Shift(p, o) == Pt(p.x + o.x, p.y + o.y, p.z + o.z)
Wrist1 == Pt(50, 60, 5)

HandOpen40 == MkHand(LANDMARK_COUNT, Origin, <<P40, P40, P40, P40>>)
HandClosed20 == MkHand(LANDMARK_COUNT, Origin, <<P20, P20, P20, P20>>)
HandDead30 == MkHand(LANDMARK_COUNT, Origin, <<P30, P30, P30, P30>>)
HandEdge25 == MkHand(LANDMARK_COUNT, Origin, <<P25, P25, P25, P25>>)
HandEdge35 == MkHand(LANDMARK_COUNT, Origin, <<P35, P35, P35, P35>>)
\* mean 35.25
HandJustOpen == MkHand(LANDMARK_COUNT, Wrist1,
                  <<Shift(P40, Wrist1), Shift(P40, Wrist1),
                    Shift(P40, Wrist1), Shift(P21, Wrist1)>>)
\* mean 24.75
HandJustClosed == MkHand(LANDMARK_COUNT, Wrist1,
                  <<Shift(P25, Wrist1), Shift(P25, Wrist1),
                    Shift(P25, Wrist1), Shift(P20 , Wrist1)>>)
\* lists with fewer than 21 points
HandShort20 == MkHand(LANDMARK_COUNT - 1, Origin, <<P40, P40, P40, P40>>)
HandShort9 == MkHand(9, Origin, <<P40, P40, P40, P40>>)

FullHands == {HandOpen40, HandClosed20, HandDead30, HandEdge25, HandEdge35,
              HandJustOpen, HandJustClosed}
ShortHands == {HandShort20, HandShort9}

\* result.landmarks of detectForVideo with numHands: 1 - no hand or one.
Results == {<<>>} \cup {<<h>> : h \in FullHands \cup ShortHands}

\* --------------------------------------------------------- the classifier
\* Math.sqrt on the squares that the sample hands produce; the integer
\* part of the root otherwise.
Sqrt(n) == CHOOSE r \in 0..150 : r * r <= n /\ (r + 1) * (r + 1) > n

\* Math.sqrt(pow(tip.x - wrist.x, 2) + pow(tip.y - wrist.y, 2) + pow(tip.z - wrist.z, 2))
Dist(tip, wrist) ==
  Sqrt((tip.x - wrist.x) * (tip.x - wrist.x)
       + (tip.y - wrist.y) * (tip.y - wrist.y)
       + (tip.z - wrist.z) * (tip.z - wrist.z))

\* landmarks[i] is undefined when i is past the end of the list
Defined(landmarks, i) == i + 1 <= Len(landmarks)

\* tip.x on an undefined tip raises a TypeError (the wrist is only
\* dereferenced after a tip, and is defined whenever a tip is).
Throws(landmarks) ==
  \E k \in 1..Len(TIPS) : ~Defined(landmarks, TIPS[k])

\* avgDist before the division by tips.length: the sum of the four distances.
SumDist(landmarks) ==
  LET wrist == landmarks[WRIST + 1]
  IN  Dist(landmarks[TIPS[1] + 1], wrist) + Dist(landmarks[TIPS[2] + 1], wrist)
      + Dist(landmarks[TIPS[3] + 1], wrist) + Dist(landmarks[TIPS[4] + 1], wrist)

\* The sums of the sample hands, computed once.
SumTable == [h \in FullHands |-> SumDist(h)]

\* Variant: the thresholds taken as inclusive.
ClassifySum_Inclusive(sum) ==
  IF sum >= OPEN_THRESHOLD * Len(TIPS) THEN "OPEN"
  ELSE IF sum <= CLOSE_THRESHOLD * Len(TIPS) THEN "CLOSED"
  ELSE "DEAD"

\* avgDist > OPEN_THRESHOLD / avgDist < CLOSE_THRESHOLD, with
\* avgDist = sum / tips.length compared without rounding.
ClassifySum(sum) ==
  IF sum > OPEN_THRESHOLD * Len(TIPS) THEN "OPEN"
  ELSE IF sum < CLOSE_THRESHOLD * Len(TIPS) THEN "CLOSED"
  ELSE "DEAD"

\* The branch of predictWebcam a detection result takes.
FrameKind(landmarksList) ==
  IF Len(landmarksList) = 0 THEN "NOHAND"
  ELSE IF Throws(landmarksList[1]) THEN "SHORT"
  ELSE ClassifySum(SumTable[landmarksList[1]])

\* The metric of a result (-1 when none is computed).
FrameSum(landmarksList) ==
  IF Len(landmarksList) = 0 \/ Throws(landmarksList[1]) THEN -1
  ELSE SumTable[landmarksList[1]]

\* ------------------------------------------------------ the state machine
\* Variant: the dwell counted as over at 5000 ms.
DwellExceeded_AtLeast(start, t) == t - start >= DWELL_MS

\* now - openHandStartTime.current > 5000
DwellExceeded(start, t) == t - start > DWELL_MS

\* Variant: the CLOSED branch without the timer reset.
NextTimer_ClosedKeeps(kind, start, t) ==
  CASE kind = "OPEN" -> (IF start = 0 THEN t ELSE start)
    [] kind = "NOHAND" -> 0
    [] OTHER -> start

\* Variant: the no-hand branch without the timer reset.
NextTimer_NoHandKeeps(kind, start, t) ==
  CASE kind = "OPEN" -> (IF start = 0 THEN t ELSE start)
    [] kind = "CLOSED" -> 0
    [] OTHER -> start

\* Variant: a timer reset in the dead band as well.
NextTimer_DeadResets(kind, start, t) ==
  CASE kind = "OPEN" -> (IF start = 0 THEN t ELSE start)
    [] kind = "CLOSED" -> 0
    [] kind = "NOHAND" -> 0
    [] kind = "DEAD" -> 0
    [] OTHER -> start

\* openHandStartTime.current after a tick of the given kind
NextTimer(kind, start, t) ==
  CASE kind = "OPEN" -> (IF start = 0 THEN t ELSE start)
    [] kind = "CLOSED" -> 0
    [] kind = "NOHAND" -> 0
    [] OTHER -> start

\* Variant: a frame without a hand scatters.
SetCall_NoHandScatters(kind, start, t) ==
  CASE kind = "OPEN" ->
         (IF start = 0 THEN SCATTERED
          ELSE IF DwellExceeded(start, t) THEN TEXT_SHAPE
          ELSE "updater")
    [] kind = "CLOSED" -> TREE_SHAPE
    [] kind = "NOHAND" -> SCATTERED
    [] OTHER -> "none"

\* the setAppState call of a tick of the given kind ("none": no call)
SetCall(kind, start, t) ==
  CASE kind = "OPEN" ->
         (IF start = 0 THEN SCATTERED
          ELSE IF DwellExceeded(start, t) THEN TEXT_SHAPE
          ELSE "updater")
    [] kind = "CLOSED" -> TREE_SHAPE
    [] OTHER -> "none"

\* Variant: the updater without the TEXT_SHAPE case.
Updater_AlwaysScatters(prev) == SCATTERED

\* prev => prev === TEXT_SHAPE ? TEXT_SHAPE : SCATTERED
Updater(prev) == IF prev = TEXT_SHAPE THEN TEXT_SHAPE ELSE SCATTERED

\* the application state after the setAppState call has been applied
ApplyCall(call, prev) ==
  CASE call = "none" -> prev
    [] call = "updater" -> Updater(prev)
    [] OTHER -> call

\* ------------------------------------------------------ particle engine
\* Number of clicks on the toggle button explored.
MaxClicks == 8

\* Number of useFrame callbacks explored.
MaxFrames == 3
\* CONFIG.particleCount, kept small.
NumParticles == 2

\* One world unit, in hundredths.
Unit == 10 * 10

\* const repulsionRadius = 8.0
REPULSION_RADIUS == 8 * Unit
\* const push = 5.0 * strength
PUSH_FACTOR == 5
\* if (len > 0.01)
MIN_LEN == Unit \div 100
\* const lerpSpeed = isText ? 2.0 : 2.5, in tenths
LERP_SPEED_TEXT == 20
LERP_SPEED_OTHER == 25
\* noiseAmp = isScattered ? 0.5 : 0.1
NOISE_AMP_SCATTERED == Unit \div 2
NOISE_AMP_OTHER == Unit \div 10

Ids == 0..(NumParticles - 1)

\* delta of useFrame, in tenths of a second: 0.2 s and 1 s.
FrameDeltas == {2, 10}

\* Values of Math.sin(...), scaled by Unit, for each particle of a frame.
SinInputs ==
  {[i \in Ids |-> IF i % 2 = 0 THEN a ELSE -a] : a \in {-Unit, Unit \div 2}}

\* raycaster.ray.intersectPlane returns null when the ray misses the plane.
NoHit == <<>>
\* Intersections with the plane z = 0.
PointerHits == {<<4 * Unit, 0, 0>>, <<8 * Unit, 0, 0>>, <<MIN_LEN, 0, 0>>,
                <<0, 0, 0>>}

\* Points sampled on the text mesh, jitter included, for each particle.
TextSamplings ==
  {[i \in Ids |-> <<2 * Unit, Unit + i * Unit, Unit>>],
   [i \in Ids |-> <<-Unit - i * Unit, -Unit, 2 * Unit>>]}

\* The alternatives of the random draws of the particle constructor.
Seeds == {0, 1}

ScatterOf(i, seed) ==
  IF seed = 0 THEN <<-i * Unit, 0, 0>> ELSE <<i * Unit, 2 * Unit, -Unit>>
TreeOf(i, seed) ==
  IF seed = 0 THEN <<Unit, i * Unit, 0>> ELSE <<0, -Unit, i * Unit>>

\* data.push({...}) of the constructor loop
NewParticle(i, seed) ==
  [id |-> i,
   scatterPosition |-> ScatterOf(i, seed),
   treePosition |-> TreeOf(i, seed),
   textPosition |-> ScatterOf(i, seed),
   currentPosition |-> ScatterOf(i, seed),
   color |-> IF (i + seed) % 2 = 0 THEN "gold" ELSE "needleLight",
   scale |-> IF (i + seed) % 2 = 0 THEN Unit \div 5 ELSE Unit \div 20,
   rotationSpeed |-> <<Unit \div 2, Unit \div 4, Unit \div (i + 1)>>,
   type |-> IF (i + seed) % 2 = 0 THEN "ornament" ELSE "needle"]

\* THREE.Vector3.lerp(v, alpha): this += (v - this) * alpha, with
\* alpha = delta * lerpSpeed, both in tenths.
VLerp(c, v, delta, speed) ==
  [k \in 1..3 |-> c[k] + ((v[k] - c[k]) * delta * speed) \div 100]

\* Math.sqrt, to the integer part, by bisection: lo * lo <= n < hi * hi.
RECURSIVE SqrtBetween(_, _, _)
SqrtBetween(n, lo, hi) ==
  IF hi - lo <= 1 THEN lo
  ELSE LET mid == (lo + hi) \div 2
       IN  IF mid * mid <= n THEN SqrtBetween(n, mid, hi)
           ELSE SqrtBetween(n, lo, mid)

VSqrt(n) == SqrtBetween(n, 0, 46340)

\* THREE.Vector3.distanceTo
DistanceTo(a, b) ==
  VSqrt((a[1] - b[1]) * (a[1] - b[1]) + (a[2] - b[2]) * (a[2] - b[2])
        + (a[3] - b[3]) * (a[3] - b[3]))

\* x * y / z for y, z >= 0, rounded toward zero
MulDiv(x, y, z) ==
  IF x >= 0 THEN (x * y) \div z ELSE -(((-x) * y) \div z)

\* 1. Determine Target
Target(state, particle) ==
  IF state = TREE_SHAPE THEN particle.treePosition
  ELSE IF state = TEXT_SHAPE THEN particle.textPosition
  ELSE particle.scatterPosition

\* Variant: one speed for every state.
LerpSpeed_Same(state) == LERP_SPEED_OTHER

\* const lerpSpeed = isText ? 2.0 : 2.5
LerpSpeed(state) == IF state = TEXT_SHAPE THEN LERP_SPEED_TEXT ELSE LERP_SPEED_OTHER

\* Variant: the stored pointer position used whether or not the ray hit.
InteractionApplies_Stale(state, hit) ==
  state = SCATTERED \/ state = TEXT_SHAPE

\* if (isInteractionActive && hit)
InteractionApplies(state, hit) ==
  (state = SCATTERED \/ state = TEXT_SHAPE) /\ hit # NoHit

\* Variant: the push without the test of the radius.
Repel_Unbounded(pos, mouse) ==
  LET dist == DistanceTo(pos, mouse)
      len == dist
      push == (PUSH_FACTOR * (REPULSION_RADIUS - dist) * Unit) \div REPULSION_RADIUS
  IN  IF len > MIN_LEN
      THEN [k \in 1..3 |-> pos[k] + MulDiv(pos[k] - mouse[k], push, len)]
      ELSE pos

\* 3. Apply Mouse Repulsion: the working copy pos after the push away from
\* the pointer position mouse.
Repel(pos, mouse) ==
  LET dist == DistanceTo(pos, mouse)
      len == dist
      push == (PUSH_FACTOR * (REPULSION_RADIUS - dist) * Unit) \div REPULSION_RADIUS
  IN  IF dist < REPULSION_RADIUS /\ len > MIN_LEN
      THEN [k \in 1..3 |-> pos[k] + MulDiv(pos[k] - mouse[k], push, len)]
      ELSE pos

\* 4. Add Hover/Noise: Math.sin(...) * noiseAmp, for a sine value sin
HoverY(state, sin) ==
  MulDiv(sin, IF state = SCATTERED THEN NOISE_AMP_SCATTERED ELSE NOISE_AMP_OTHER, Unit)

\* tempObject.position of a particle whose interpolated position is pos
Rendered(state, hit, mouse, pos, sin) ==
  LET w == IF InteractionApplies(state, hit) THEN Repel(pos, mouse) ELSE pos
  IN  <<w[1], w[2] + HoverY(state, sin), w[3]>>

\* Variant: the offsets applied to the stored vector itself.
StoredPosition_Working(lerped, working) == working

\* const pos = particle.currentPosition.clone(): the stored position is the
\* interpolated one, the working copy carries the offsets.
StoredPosition(lerped, working) == lerped

\* Variant: the sample copied into the scatter position.
AssignText_WrongField(particle, sample) == [particle EXCEPT !.scatterPosition = sample]

\* p.textPosition.copy(tempSamplePos)
AssignText(particle, sample) == [particle EXCEPT !.textPosition = sample]

VARIABLES
  appState,           \* the parent's application state (props appState / setAppState)
  openHandStartTime,  \* openHandStartTime.current, 0 = unset
  lastVideoTime,      \* lastVideoTime.current
  requestRef,         \* requestRef.current, 0 = undefined
  landmarkerRef,      \* landmarkerRef.current is set
  hasPermission,
  isLoading,
  active,             \* the effect's closure flag
  pc,                 \* where initAll is
  cameraPromise,      \* getUserMedia promise
  visionPromise,      \* FilesetResolver promise
  srcObject,          \* video.srcObject holds the stream
  trackLive,          \* the acquired stream has a track that was not stopped
  rafPending,         \* ids of pending animation-frame requests
  mounted,            \* the effect cleanup has not run
  videoTime,          \* video.currentTime, in frames
  now,                \* Date.now()
  ticks,              \* calls of predictWebcam so far
  threw,              \* predictWebcam raised an exception
  lastClass,          \* classification of the last processed frame
  lastSum,            \* metric of the last processed frame (sum of distances)
  lastCall,           \* setAppState call of the last call of predictWebcam
  openRunStart,       \* time of the first frame of the current run of OPEN frames
  dwellRunStart,      \* time of the first OPEN frame since the last CLOSED / no-hand frame
  prevState,          \* appState before the last call of predictWebcam
  prevTimer,          \* openHandStartTime before the last call of predictWebcam
  overridden,         \* the application state has been set from outside
  particles,          \* the particle store, by id
  meshRef,            \* meshRef.current is set
  mouse3D,            \* mouse3D.current
  instanceMatrix,     \* position of the transform written to each slot
  fontLoaded,         \* the font callback has run
  frames,             \* useFrame callbacks that reached the update
  lastDelta,          \* delta of the last update
  lastHit,            \* intersection of the last update
  lastSin,            \* sine values of the last update, by id
  lastState,          \* application state the last update read
  shadow,             \* positions of a run without pointer and clock
  isPlaying,          \* the AudioPlayer's isPlaying state
  audio,              \* the audio element: "paused" (silent), "starting" or "playing"
  attemptPc,          \* where attemptPlay is: "mount", "await" or "done"
  clickPlays,         \* pending play() promises made by togglePlay
  clicks,             \* clicks on the toggle button so far
  failedLogs,         \* "Audio play failed" messages logged
  blockedLogged       \* "Autoplay blocked" has been logged

loopVars == <<appState, openHandStartTime, lastVideoTime, requestRef, rafPending,
              videoTime, now, ticks, threw, lastClass, lastSum, lastCall,
              openRunStart, dwellRunStart, prevState, prevTimer, overridden>>
initVars == <<landmarkerRef, hasPermission, isLoading, active, pc, cameraPromise,
              visionPromise, srcObject, trackLive, mounted>>
particleVars == <<particles, meshRef, mouse3D, instanceMatrix, fontLoaded, frames,
                  lastDelta, lastHit, lastSin, lastState, shadow>>
audioVars == <<isPlaying, audio, attemptPc, clickPlays, clicks, failedLogs, blockedLogged>>
\* every variable of the gesture controller but the application state
gestureVars == <<openHandStartTime, lastVideoTime, requestRef, rafPending,
                 videoTime, now, ticks, threw, lastClass, lastSum, lastCall,
                 openRunStart, dwellRunStart, prevState, prevTimer, overridden,
                 initVars>>
vars == <<appState, openHandStartTime, lastVideoTime, requestRef, landmarkerRef,
          hasPermission, isLoading, active, pc, cameraPromise, visionPromise,
          srcObject, trackLive, rafPending, mounted, videoTime, now, ticks,
          threw, lastClass, lastSum, lastCall, openRunStart, dwellRunStart,
          prevState, prevTimer, overridden, particleVars, audioVars>>

\* The store after the constructor, before any frame.
ParticleInit(seed) ==
  /\ particles = [i \in Ids |-> NewParticle(i, seed)]
  /\ meshRef = TRUE
  /\ mouse3D = <<0, 0, 0>>
  /\ instanceMatrix = [i \in Ids |-> <<>>]
  /\ fontLoaded = FALSE
  /\ frames = 0
  /\ lastDelta = 0
  /\ lastHit = NoHit
  /\ lastSin = [i \in Ids |-> 0]
  /\ lastState = SCATTERED
  /\ shadow = [i \in Ids |-> ScatterOf(i, seed)]

\* The gesture controller after its first render.
GestureInit ==
  /\ appState = SCATTERED
  /\ openHandStartTime = 0
  /\ lastVideoTime = -1
  /\ requestRef = 0
  /\ landmarkerRef = FALSE
  /\ hasPermission = FALSE
  /\ isLoading = TRUE
  /\ active = TRUE
  /\ pc = "awaitAll"
  /\ cameraPromise = "pending"
  /\ visionPromise = "pending"
  /\ srcObject = FALSE
  /\ trackLive = FALSE
  /\ rafPending = {}
  /\ mounted = TRUE
  /\ videoTime = 0
  /\ now = 1
  /\ ticks = 0
  /\ threw = FALSE
  /\ lastClass = "NONE"
  /\ lastSum = -1
  /\ lastCall = "none"
  /\ openRunStart = 0
  /\ dwellRunStart = 0
  /\ prevState = SCATTERED
  /\ prevTimer = 0
  /\ overridden = FALSE

\* useState(false), useRef(null) attached by the first render; the element
\* is paused and the mount effect has not run.
AudioInit ==
  /\ isPlaying = FALSE
  /\ audio = "paused"
  /\ attemptPc = "mount"
  /\ clickPlays = 0
  /\ clicks = 0
  /\ failedLogs = 0
  /\ blockedLogged = FALSE

Init == GestureInit /\ ParticleInit(0) /\ AudioInit

\* ------------------------------------------------------- predictWebcam
\* Variant: a detection on every call with a ready video.
Detects_Always(landmarker, ready, adv) ==
  landmarker /\ ready

\* if (video && landmarker && video.readyState >= 2) and
\* if (video.currentTime !== lastVideoTime.current): the call runs a detection.
Detects(landmarker, ready, adv) ==
  landmarker /\ ready /\ videoTime + adv # lastVideoTime

\* What detectForVideo can return in a call; it is not called, and there is
\* no result, when the call does not detect.
DetectResults(landmarker, ready, adv) ==
  IF Detects(landmarker, ready, adv) THEN Results ELSE {<<>>}

\* One call of predictWebcam: landmarker is landmarkerRef.current as the call
\* sees it, ready is video.readyState >= 2, adv says whether the video moved
\* to a new frame since the previous call, res is the detection result, d the
\* time since the previous call.  The call that raises does not reach
\* requestAnimationFrame.
PredictWebcam(landmarker, ready, adv, res, d) ==
  LET vt == videoTime + adv
      t == now + d
      detect == Detects(landmarker, ready, adv)
      kind == IF detect THEN FrameKind(res) ELSE "SKIP"
      call == SetCall(kind, openHandStartTime, t)
  IN  /\ ticks < MaxTicks
      /\ ticks' = ticks + 1
      /\ videoTime' = vt
      /\ now' = t
      /\ lastVideoTime' = IF detect THEN vt ELSE lastVideoTime
      /\ openHandStartTime' = NextTimer(kind, openHandStartTime, t)
      /\ appState' = ApplyCall(call, appState)
      /\ threw' = (threw \/ kind = "SHORT")
      /\ IF kind = "SHORT"
         THEN /\ requestRef' = requestRef
              /\ rafPending' = rafPending \ {requestRef}
         ELSE /\ requestRef' = ticks + 1
              /\ rafPending' = (rafPending \ {requestRef}) \cup {ticks + 1}
      /\ lastClass' = IF detect THEN kind ELSE lastClass
      /\ prevState' = appState
      /\ prevTimer' = openHandStartTime
      /\ overridden' = overridden
      /\ lastSum' = IF detect THEN FrameSum(res) ELSE lastSum
      /\ lastCall' = call
      /\ openRunStart' =
           CASE kind = "OPEN" -> (IF openRunStart = 0 THEN t ELSE openRunStart)
             [] kind \in {"SKIP", "SHORT"} -> openRunStart
             [] OTHER -> 0
      /\ dwellRunStart' =
           CASE kind = "OPEN" -> (IF dwellRunStart = 0 THEN t ELSE dwellRunStart)
             [] kind \in {"CLOSED", "NOHAND"} -> 0
             [] OTHER -> dwellRunStart

\* The animation-frame callback: the pending request fires.
Tick ==
  /\ requestRef \in rafPending
  /\ \E ready \in BOOLEAN, adv \in {0, 1}, d \in Deltas :
       \E res \in DetectResults(landmarkerRef, ready, adv) :
         PredictWebcam(landmarkerRef, ready, adv, res, d)
  /\ UNCHANGED initVars
  /\ UNCHANGED particleVars
  /\ UNCHANGED audioVars

\* --------------------------------------------------------------- initAll
\* Variant: the catch block without setHasPermission(false).
Catch_KeepsPermission ==
  /\ isLoading' = FALSE
  /\ hasPermission' = hasPermission
  /\ pc' = "failed"

\* catch (error) { setIsLoading(false); setHasPermission(false); }
Catch ==
  /\ isLoading' = FALSE
  /\ hasPermission' = FALSE
  /\ pc' = "failed"

\* The continuation of `await Promise.all(...)`: if (!active) return;
\* otherwise the stream is attached to the video and play() is awaited.
AfterAll ==
  IF ~active
  THEN pc' = "returned" /\ srcObject' = srcObject
  ELSE pc' = "awaitPlay" /\ srcObject' = TRUE

\* getUserMedia resolves with a stream; Promise.all resolves with it when the
\* vision runtime is already there.
CameraResolve ==
  /\ cameraPromise = "pending"
  /\ cameraPromise' = "fulfilled"
  /\ trackLive' = TRUE
  /\ IF pc = "awaitAll" /\ visionPromise = "fulfilled"
     THEN AfterAll
     ELSE UNCHANGED <<pc, srcObject>>
  /\ UNCHANGED <<loopVars, landmarkerRef, hasPermission, isLoading, active,
                 visionPromise, mounted>>
  /\ UNCHANGED particleVars
  /\ UNCHANGED audioVars

\* getUserMedia rejects; Promise.all rejects with it unless it already has.
CameraReject ==
  /\ cameraPromise = "pending"
  /\ cameraPromise' = "rejected"
  /\ IF pc = "awaitAll"
     THEN Catch
     ELSE UNCHANGED <<pc, isLoading, hasPermission>>
  /\ UNCHANGED <<loopVars, landmarkerRef, active, visionPromise, srcObject,
                 trackLive, mounted>>
  /\ UNCHANGED particleVars
  /\ UNCHANGED audioVars

VisionResolve ==
  /\ visionPromise = "pending"
  /\ visionPromise' = "fulfilled"
  /\ IF pc = "awaitAll" /\ cameraPromise = "fulfilled"
     THEN AfterAll
     ELSE UNCHANGED <<pc, srcObject>>
  /\ UNCHANGED <<loopVars, landmarkerRef, hasPermission, isLoading, active,
                 cameraPromise, trackLive, mounted>>
  /\ UNCHANGED particleVars
  /\ UNCHANGED audioVars

VisionReject ==
  /\ visionPromise = "pending"
  /\ visionPromise' = "rejected"
  /\ IF pc = "awaitAll"
     THEN Catch
     ELSE UNCHANGED <<pc, isLoading, hasPermission>>
  /\ UNCHANGED <<loopVars, landmarkerRef, active, cameraPromise, srcObject,
                 trackLive, mounted>>
  /\ UNCHANGED particleVars
  /\ UNCHANGED audioVars

\* video.play() resolved: setHasPermission(true), then createFromOptions.
PlayResolve ==
  /\ pc = "awaitPlay"
  /\ hasPermission' = TRUE
  /\ pc' = "awaitLandmarker"
  /\ UNCHANGED <<loopVars, landmarkerRef, isLoading, active, cameraPromise,
                 visionPromise, srcObject, trackLive, mounted>>
  /\ UNCHANGED particleVars
  /\ UNCHANGED audioVars

PlayReject ==
  /\ pc = "awaitPlay"
  /\ Catch
  /\ UNCHANGED <<loopVars, landmarkerRef, active, cameraPromise, visionPromise,
                 srcObject, trackLive, mounted>>
  /\ UNCHANGED particleVars
  /\ UNCHANGED audioVars

\* createFromOptions resolved: if (!active) return; store the landmarker,
\* setIsLoading(false) and make the first call of predictWebcam, inside the try.
LandmarkerResolve ==
  /\ pc = "awaitLandmarker"
  /\ IF ~active
     THEN /\ pc' = "returned"
          /\ UNCHANGED <<loopVars, landmarkerRef, hasPermission, isLoading>>
     ELSE /\ landmarkerRef' = TRUE
          /\ \E ready \in BOOLEAN, adv \in {0, 1}, d \in Deltas :
               \E res \in DetectResults(TRUE, ready, adv) :
                 PredictWebcam(TRUE, ready, adv, res, d)
          /\ IF threw'
             THEN Catch
             ELSE /\ isLoading' = FALSE
                  /\ hasPermission' = hasPermission
                  /\ pc' = "looping"
  /\ UNCHANGED <<active, cameraPromise, visionPromise, srcObject, trackLive, mounted>>
  /\ UNCHANGED particleVars
  /\ UNCHANGED audioVars

LandmarkerReject ==
  /\ pc = "awaitLandmarker"
  /\ Catch
  /\ UNCHANGED <<loopVars, landmarkerRef, active, cameraPromise, visionPromise,
                 srcObject, trackLive, mounted>>
  /\ UNCHANGED particleVars
  /\ UNCHANGED audioVars

\* Variant: a cleanup that leaves the animation-frame request pending.
Cleanup_NoCancel ==
  /\ mounted
  /\ mounted' = FALSE
  /\ active' = FALSE
  /\ rafPending' = rafPending
  /\ trackLive' = IF srcObject THEN FALSE ELSE trackLive
  /\ UNCHANGED <<appState, openHandStartTime, lastVideoTime, requestRef, videoTime,
                 now, ticks, threw, lastClass, lastSum, lastCall, openRunStart,
                 dwellRunStart, prevState, prevTimer, overridden, landmarkerRef, hasPermission, isLoading, pc,
                 cameraPromise, visionPromise, srcObject>>
  /\ UNCHANGED particleVars
  /\ UNCHANGED audioVars

\* The effect cleanup: active = false; cancel requestRef.current if set; stop
\* the tracks of video.srcObject if it is set.
Cleanup ==
  /\ mounted
  /\ mounted' = FALSE
  /\ active' = FALSE
  /\ rafPending' = IF requestRef # 0 THEN rafPending \ {requestRef} ELSE rafPending
  /\ trackLive' = IF srcObject THEN FALSE ELSE trackLive
  /\ UNCHANGED <<appState, openHandStartTime, lastVideoTime, requestRef, videoTime,
                 now, ticks, threw, lastClass, lastSum, lastCall, openRunStart,
                 dwellRunStart, prevState, prevTimer, overridden, landmarkerRef, hasPermission, isLoading, pc,
                 cameraPromise, visionPromise, srcObject>>
  /\ UNCHANGED particleVars
  /\ UNCHANGED audioVars

\* The owner of the application state sets it directly.
ExternalOverride ==
  /\ \E s \in AppState : s # appState /\ appState' = s
  /\ overridden' = TRUE
  /\ UNCHANGED <<openHandStartTime, lastVideoTime, requestRef, rafPending,
                 videoTime, now, ticks, threw, lastClass, lastSum, lastCall,
                 openRunStart, dwellRunStart, prevState, prevTimer, initVars>>
  /\ UNCHANGED particleVars
  /\ UNCHANGED audioVars

\* ---------------------------------------------------- ChristmasParticles
\* The useFrame callback: it returns at once without a mesh; otherwise it
\* stores the intersection when there is one, and for every particle
\* interpolates the stored position toward the target of the application
\* state and writes the transform of the working copy to the particle's slot.
Frame ==
  /\ frames < MaxFrames
  /\ IF ~meshRef
     THEN UNCHANGED particleVars
     ELSE \E delta \in FrameDeltas, hit \in {NoHit} \cup PointerHits,
             sin \in SinInputs :
            LET mouse == IF hit # NoHit THEN hit ELSE mouse3D
                lerped == [i \in Ids |->
                             VLerp(particles[i].currentPosition,
                                   Target(appState, particles[i]),
                                   delta, LerpSpeed(appState))]
                working == [i \in Ids |->
                              Rendered(appState, hit, mouse, lerped[i], sin[i])]
            IN  /\ mouse3D' = mouse
                /\ particles' = [i \in Ids |->
                     [particles[i] EXCEPT
                        !.currentPosition = StoredPosition(lerped[i], working[i])]]
                /\ instanceMatrix' = working
                /\ frames' = frames + 1
                /\ lastDelta' = delta
                /\ lastHit' = hit
                /\ lastSin' = sin
                /\ lastState' = appState
                /\ shadow' = [i \in Ids |->
                     VLerp(shadow[i], Target(appState, particles[i]),
                           delta, LerpSpeed(appState))]
                /\ UNCHANGED <<meshRef, fontLoaded>>
  /\ UNCHANGED <<appState, gestureVars, audioVars>>

\* Variant: a callback that assigns the first particle only.
TextAssign_FirstOnly ==
  /\ ~fontLoaded
  /\ fontLoaded' = TRUE
  /\ \E sample \in TextSamplings :
       particles' = [i \in Ids |->
                       IF i = 0 THEN AssignText(particles[i], sample[i]) ELSE particles[i]]
  /\ UNCHANGED <<meshRef, mouse3D, instanceMatrix, frames, lastDelta, lastHit,
                 lastSin, lastState, shadow, appState, gestureVars, audioVars>>

\* The callback of loader.load: every particle gets its sampled point, in
\* one run of particles.forEach.
TextAssign ==
  /\ ~fontLoaded
  /\ fontLoaded' = TRUE
  /\ \E sample \in TextSamplings :
       particles' = [i \in Ids |-> AssignText(particles[i], sample[i])]
  /\ UNCHANGED <<meshRef, mouse3D, instanceMatrix, frames, lastDelta, lastHit,
                 lastSin, lastState, shadow, appState, gestureVars, audioVars>>

\* The component is rendered again with another appState prop.
AppStateProp ==
  /\ \E s \in AppState : s # appState /\ appState' = s
  /\ UNCHANGED <<particleVars, gestureVars, audioVars>>

\* The instanced mesh is unmounted: meshRef.current becomes null.
MeshDetach ==
  /\ meshRef
  /\ meshRef' = FALSE
  /\ UNCHANGED <<particles, mouse3D, instanceMatrix, fontLoaded, frames, lastDelta,
                 lastHit, lastSin, lastState, shadow, appState, gestureVars, audioVars>>

ParticleNext ==
  \/ Frame
  \/ TextAssign
  \/ AppStateProp
  \/ MeshDetach

ParticleSpecInit == GestureInit /\ AudioInit /\ \E seed \in Seeds : ParticleInit(seed)

ParticleSpec == ParticleSpecInit /\ [][ParticleNext]_vars

ParticleTypeOK ==
  /\ DOMAIN particles = Ids
  /\ DOMAIN instanceMatrix = Ids
  /\ frames \in 0..MaxFrames
  /\ meshRef \in BOOLEAN
  /\ fontLoaded \in BOOLEAN

\* ---------------------------------------------------------- AudioPlayer
\* What a call of audio.play() can do to a paused element: the browser
\* blocks it (the promise is rejected, the element stays paused) or playback
\* begins to start (the promise is pending).
PlayOutcomes == {"blocked", "starting"}

\* The pending play() promises are rejected: attemptPlay's catch logs
\* "Autoplay blocked", each togglePlay catch logs "Audio play failed".
RejectPending ==
  /\ attemptPc' = IF attemptPc = "await" THEN "done" ELSE attemptPc
  /\ blockedLogged' = (blockedLogged \/ attemptPc = "await")
  /\ failedLogs' = failedLogs + clickPlays
  /\ clickPlays' = 0

\* The mount effect: attemptPlay sets the volume and awaits audio.play();
\* a rejection is caught and logged.
AttemptPlay ==
  /\ attemptPc = "mount"
  /\ \E outcome \in PlayOutcomes :
       IF outcome = "blocked"
       THEN /\ attemptPc' = "done"
            /\ blockedLogged' = TRUE
            /\ UNCHANGED audio
       ELSE /\ attemptPc' = "await"
            /\ audio' = "starting"
            /\ UNCHANGED blockedLogged
  /\ UNCHANGED <<isPlaying, clickPlays, clicks, failedLogs>>
  /\ UNCHANGED <<appState, gestureVars, particleVars>>

\* Playback starts: the pending play() promises are fulfilled; attemptPlay
\* continues after its await with setIsPlaying(true).
PlaybackStarts ==
  /\ audio = "starting"
  /\ audio' = "playing"
  /\ isPlaying' = IF attemptPc = "await" THEN TRUE ELSE isPlaying
  /\ attemptPc' = IF attemptPc = "await" THEN "done" ELSE attemptPc
  /\ clickPlays' = 0
  /\ UNCHANGED <<clicks, failedLogs, blockedLogged>>
  /\ UNCHANGED <<appState, gestureVars, particleVars>>

\* Playback cannot start (the source does not load): the pending play()
\* promises are rejected and the element stays silent.
PlaybackFails ==
  /\ audio = "starting"
  /\ audio' = "paused"
  /\ RejectPending
  /\ UNCHANGED <<isPlaying, clicks>>
  /\ UNCHANGED <<appState, gestureVars, particleVars>>

\* onClick={togglePlay}: pause() if isPlaying, else play() with a catch that
\* logs; then setIsPlaying(!isPlaying) in both cases. The mount effect has
\* run before the first click is handled.
TogglePlay ==
  /\ attemptPc # "mount"
  /\ clicks < MaxClicks
  /\ clicks' = clicks + 1
  /\ isPlaying' = ~isPlaying
  /\ IF isPlaying
     THEN /\ audio' = "paused"
          /\ IF audio = "starting"
             THEN RejectPending
             ELSE UNCHANGED <<attemptPc, blockedLogged, failedLogs, clickPlays>>
     ELSE \E outcome \in PlayOutcomes :
            CASE audio = "playing" ->
                   UNCHANGED <<audio, attemptPc, blockedLogged, failedLogs, clickPlays>>
              [] audio = "starting" ->
                   /\ clickPlays' = clickPlays + 1
                   /\ UNCHANGED <<audio, attemptPc, blockedLogged, failedLogs>>
              [] OTHER ->
                   IF outcome = "blocked"
                   THEN /\ failedLogs' = failedLogs + 1
                        /\ UNCHANGED <<audio, attemptPc, blockedLogged, clickPlays>>
                   ELSE /\ audio' = "starting"
                        /\ clickPlays' = clickPlays + 1
                        /\ UNCHANGED <<attemptPc, blockedLogged, failedLogs>>
  /\ UNCHANGED <<appState, gestureVars, particleVars>>

AudioNext ==
  \/ AttemptPlay
  \/ PlaybackStarts
  \/ PlaybackFails
  \/ TogglePlay

AudioSpec == Init /\ [][AudioNext]_vars

AudioTypeOK ==
  /\ isPlaying \in BOOLEAN
  /\ audio \in {"paused", "starting", "playing"}
  /\ attemptPc \in {"mount", "await", "done"}
  /\ clickPlays \in 0..MaxClicks
  /\ clicks \in 0..MaxClicks
  /\ failedLogs \in 0..MaxClicks
  /\ blockedLogged \in BOOLEAN

Next ==
  \/ CameraResolve
  \/ CameraReject
  \/ VisionResolve
  \/ VisionReject
  \/ PlayResolve
  \/ PlayReject
  \/ LandmarkerResolve
  \/ LandmarkerReject
  \/ Tick
  \/ Cleanup
  \/ ExternalOverride

Spec == Init /\ [][Next]_vars

TypeOK ==
  /\ appState \in AppState
  /\ openHandStartTime \in Nat
  /\ requestRef \in 0..MaxTicks
  /\ rafPending \subseteq 1..MaxTicks
  /\ pc \in {"awaitAll", "awaitPlay", "awaitLandmarker", "looping", "returned", "failed"}
  /\ lastClass \in {"NONE", "OPEN", "CLOSED", "DEAD", "NOHAND", "SHORT"}

\* ------------------------------------------------------------ vocabulary
\* The step is a call of predictWebcam that ran a detection (line 105 is the
\* only assignment of lastVideoTime, and it always changes it).
Processed == lastVideoTime' # lastVideoTime

OpenFrame == Processed /\ lastClass' = "OPEN"
ClosedFrame == Processed /\ lastClass' = "CLOSED"
DeadFrame == Processed /\ lastClass' = "DEAD"
NoHandFrame == Processed /\ lastClass' = "NOHAND"
ShortFrame == Processed /\ lastClass' = "SHORT"

\* {!hasPermission && !isLoading && <div>Camera Blocked</div>}
CameraBlockedNotice == ~hasPermission /\ ~isLoading

\* Initialization failed in getUserMedia, the vision runtime, video.play or
\* createFromOptions (and not in the first call of predictWebcam).
InitFailed == pc = "failed" /\ ~threw

\* No step of initAll is still to come.
Settled ==
  /\ pc \in {"looping", "returned", "failed"}
  /\ cameraPromise # "pending"
  /\ visionPromise # "pending"

C2_ClosedRule ==
  [][/\ ClosedFrame => (openHandStartTime' = 0 /\ appState' = TREE_SHAPE)
     /\ (lastClass = "CLOSED" /\ OpenFrame) =>
          (openHandStartTime' = now' /\ appState' = SCATTERED)
  ]_vars

\* A CLOSED frame has taken the state from TEXT, with a running timer, to TREE.
C2_Witness ==
  /\ ~overridden
  /\ lastClass = "CLOSED"
  /\ lastCall = TREE_SHAPE
  /\ prevState = TEXT_SHAPE
  /\ prevTimer # 0
  /\ appState = TREE_SHAPE
  /\ openHandStartTime = 0

\* ------------------------------------------------------------------ C3
\* C3 as stated: every processed UNKNOWN frame (no hand, or metric in the
\* dead band) unsets the dwell timer.
C3_UnknownResetsTimer ==
  [][(NoHandFrame \/ DeadFrame) => openHandStartTime' = 0]_vars

\* C3 amended: a processed frame without a hand unsets the dwell timer, and
\* the next OPEN frame starts the dwell at its own timestamp; a processed
\* frame in the dead band leaves the timer as it was.
C3_NoHandResetsTimer ==
  [][/\ NoHandFrame => openHandStartTime' = 0
     /\ DeadFrame => openHandStartTime' = openHandStartTime
     /\ (lastClass = "NOHAND" /\ OpenFrame) => openHandStartTime' = now'
  ]_vars

\* A frame without a hand has unset a running timer.
C3_Witness ==
  /\ lastClass = "NOHAND"
  /\ prevTimer # 0
  /\ openHandStartTime = 0

\* ------------------------------------------------------------------ C4
\* C4: a processed UNKNOWN frame (no hand, or metric in the dead band) makes
\* no setAppState call and leaves the application state as it was.
C4_UnknownHoldsState ==
  [][(NoHandFrame \/ DeadFrame) => (lastCall' = "none" /\ appState' = appState)]_vars

\* A dead-band frame has been processed in state TEXT, which it left.
C4_Witness ==
  /\ ~overridden
  /\ lastClass = "DEAD"
  /\ lastCall = "none"
  /\ prevState = TEXT_SHAPE
  /\ appState = TEXT_SHAPE

\* ------------------------------------------------------------------ C5
\* C5 as stated: when the controller sets TEXT, the run of consecutive OPEN
\* frames that the frame belongs to began more than 5000 ms before.
C5_TextOnlyAfterOpenRun ==
  [][(Processed /\ lastCall' = TEXT_SHAPE) =>
       (openRunStart' # 0 /\ now' - openRunStart' > 5000)]_vars

\* C5 amended: when the controller sets TEXT, the frame is OPEN and an OPEN
\* frame was processed more than 5000 ms before, since which no CLOSED frame
\* and no frame without a hand was processed (dead-band frames may have been).
C5_TextOnlyAfterDwell ==
  [][(Processed /\ lastCall' = TEXT_SHAPE) =>
       /\ lastClass' = "OPEN"
       /\ dwellRunStart' # 0
       /\ now' - dwellRunStart' > 5000]_vars

\* The controller has set TEXT from SCATTERED.
C5_Witness ==
  /\ lastCall = TEXT_SHAPE
  /\ prevState = SCATTERED
  /\ appState = TEXT_SHAPE
  /\ ~overridden
  /\ now - dwellRunStart > 5000

\* ------------------------------------------------------------------ C6
\* C6 as stated: in state TEXT, reached by gesture, a processed frame that is
\* not CLOSED leaves TEXT, and a CLOSED frame gives TREE.
C6_TextLeftOnlyByClosed ==
  [][(Processed /\ appState = TEXT_SHAPE /\ ~overridden) =>
       appState' = (IF lastClass' = "CLOSED" THEN TREE_SHAPE ELSE TEXT_SHAPE)]_vars

\* C6 amended: in state TEXT a processed frame changes the state only if it
\* is CLOSED (to TREE) or it is an OPEN frame that finds the dwell timer
\* unset (to SCATTERED); dead-band frames, frames without a hand and OPEN
\* frames with the timer set leave TEXT.
C6_TextLeftByClosedOrFreshOpen ==
  [][(Processed /\ appState = TEXT_SHAPE) =>
       appState' = (IF lastClass' = "CLOSED" THEN TREE_SHAPE
                    ELSE IF lastClass' = "OPEN" /\ openHandStartTime = 0 THEN SCATTERED
                    ELSE TEXT_SHAPE)]_vars

\* An OPEN frame with the timer unset has taken TEXT, reached by dwell, to
\* SCATTERED.
C6_Witness ==
  /\ lastClass = "OPEN"
  /\ prevState = TEXT_SHAPE
  /\ prevTimer = 0
  /\ appState = SCATTERED
  /\ ~overridden

\* ------------------------------------------------------------------ C7
\* C7: a processed frame with a full landmark list is OPEN exactly when the
\* mean distance exceeds 0.35 (sum of the four above 1.40) and CLOSED exactly
\* when it is below 0.25 (sum below 1.00); a metric from 0.25 to 0.35, both
\* included, leaves the application state as it was; a frame of metric 0.40
\* is OPEN and gives SCATTERED when it starts the dwell, and a frame of
\* metric 0.20 after it is CLOSED and gives TREE.
C7_Hysteresis ==
  [][Processed =>
       /\ lastSum' # -1 =>
            /\ lastClass' = "OPEN" <=> lastSum' > 140
            /\ lastClass' = "CLOSED" <=> lastSum' < 100
       /\ (lastSum' >= 100 /\ lastSum' <= 140) =>
            (appState' = appState /\ lastClass' = "DEAD")
       /\ lastSum' = 160 =>
            /\ lastClass' = "OPEN"
            /\ openHandStartTime = 0 => appState' = SCATTERED
       /\ lastSum' = 80 => (lastClass' = "CLOSED" /\ appState' = TREE_SHAPE)
  ]_vars

\* A frame of metric 0.20 has followed OPEN frames and taken SCATTERED to TREE.
C7_Witness ==
  /\ lastSum = 80
  /\ lastClass = "CLOSED"
  /\ prevState = SCATTERED
  /\ prevTimer # 0
  /\ appState = TREE_SHAPE

\* ------------------------------------------------------------------ C8
\* C8 as stated: a processed frame whose landmark list is short raises no
\* error, leaves the application state, and the loop is rescheduled.
C8_ShortListIsUnknown ==
  [][ShortFrame =>
       /\ ~threw'
       /\ appState' = appState
       /\ requestRef' = ticks' /\ requestRef' \in rafPending']_vars

\* ------------------------------------------------------------------ C9
\* C9: when initialization fails in camera acquisition, in loading the
\* vision runtime or in creating the landmarker, predictWebcam has not been
\* called and no animation-frame request exists, so the controller has made
\* and will make no setAppState call, and the UI shows the blocked-camera
\* notice (isLoading false, hasPermission false).
C9_InitFailureNotFatal ==
  InitFailed =>
    /\ ticks = 0
    /\ requestRef = 0
    /\ rafPending = {}
    /\ lastCall = "none"
    /\ ~isLoading
    /\ ~hasPermission
    /\ CameraBlockedNotice

\* Landmarker creation has failed after the camera was granted and played;
\* the state has been set from outside since.
C9_Witness ==
  /\ InitFailed
  /\ cameraPromise = "fulfilled"
  /\ visionPromise = "fulfilled"
  /\ srcObject
  /\ mounted
  /\ CameraBlockedNotice
  /\ appState = TREE_SHAPE

\* ------------------------------------------------------------------ C10
\* C10 as stated: once the cleanup has run and initialization has settled,
\* no animation-frame request is pending and no acquired track is live.
C10_TeardownReleasesAll ==
  (~mounted /\ Settled) => (rafPending = {} /\ ~trackLive)

\* ------------------------------------------------- particle vocabulary
\* The step is a useFrame callback that reached the update.
FrameUpdate == frames' = frames + 1

\* squared distance of two points
DistSq(a, b) ==
  (a[1] - b[1]) * (a[1] - b[1]) + (a[2] - b[2]) * (a[2] - b[2])
  + (a[3] - b[3]) * (a[3] - b[3])

\* Every text position is still the scatter fallback.
AllFallback ==
  \A i \in Ids : particles[i].textPosition = particles[i].scatterPosition

\* Every text position is the point of one sampling.
AllSampled ==
  \E sample \in TextSamplings : \A i \in Ids : particles[i].textPosition = sample[i]

\* ------------------------------------------------------------------ C11
\* C11: in every state a frame update can run in, either every particle's
\* textPosition is its scatterPosition or every particle's textPosition is
\* its sampled point; the store is never seen partly assigned.
C11_TextAssignAtomic == AllFallback \/ AllSampled

\* Updates have run before and after the assignment, the last one in TEXT
\* toward the sampled points.
C11_Witness ==
  /\ fontLoaded
  /\ AllSampled
  /\ ~AllFallback
  /\ frames >= 2
  /\ lastState = TEXT_SHAPE
  /\ \E i \in Ids : particles[i].currentPosition # particles[i].scatterPosition

\* ------------------------------------------------------------------ C12
\* C12 as stated: in state TREE, for a particle with treePosition (1,0,0)
\* and currentPosition (0,0,0), an update with deltaTime 1 leaves
\* currentPosition on the segment, nearer to (1,0,0) and not beyond it.
C12_NoOvershoot ==
  [][(FrameUpdate /\ appState = TREE_SHAPE /\ lastDelta' = 10) =>
       \A i \in Ids :
         (/\ particles[i].treePosition = <<Unit, 0, 0>>
          /\ particles[i].currentPosition = <<0, 0, 0>>) =>
           /\ particles'[i].currentPosition[1] > 0
           /\ particles'[i].currentPosition[1] <= Unit
           /\ particles'[i].currentPosition[2] = 0
           /\ particles'[i].currentPosition[3] = 0]_vars

\* ------------------------------------------------------------------ C13
\* C13 as stated: an update with a positive deltaTime brings every particle
\* that is not at its target strictly nearer to the target.
C13_StrictlyNearer ==
  [][FrameUpdate =>
       \A i \in Ids :
         LET target == Target(appState, particles[i])
         IN  particles[i].currentPosition # target =>
               DistSq(particles'[i].currentPosition, target)
                 < DistSq(particles[i].currentPosition, target)]_vars

\* ------------------------------------------------------------------ C14
\* C14: the stored position of every particle is the position of the run
\* that sees the same application states, deltas and targets and has no
\* pointer and no clock: repulsion and hover stay out of currentPosition.
C14_NoFeedback ==
  \A i \in Ids : particles[i].currentPosition = shadow[i]

\* Two updates have run, the last with a hit that pushed a particle's
\* transform away from its stored position.
C14_Witness ==
  /\ frames >= 2
  /\ lastHit # NoHit
  /\ \E i \in Ids :
       /\ instanceMatrix[i][1] # particles[i].currentPosition[1]
       /\ particles[i].currentPosition # particles[i].scatterPosition
       /\ particles[i].currentPosition = shadow[i]

\* ------------------------------------------------------------------ C15
\* C15: in an update, the transform of a particle differs from its stored
\* position plus the hover offset only if the state is SCATTERED or TEXT and
\* the ray hit the plane in this update; in TREE, or without a hit, every
\* transform is the stored position plus hover, whatever mouse3D holds.
C15_RepulsionGated ==
  [][FrameUpdate =>
       \A i \in Ids :
         LET cur == particles'[i].currentPosition
             base == <<cur[1], cur[2] + HoverY(appState, lastSin'[i]), cur[3]>>
         IN  /\ (appState = TREE_SHAPE \/ lastHit' = NoHit) => instanceMatrix'[i] = base
             /\ instanceMatrix'[i] # base =>
                  (appState \in {SCATTERED, TEXT_SHAPE} /\ lastHit' # NoHit)]_vars

\* An update without a hit has run in SCATTERED while mouse3D held an earlier
\* hit within the radius of a particle, which was not pushed.
C15_Witness ==
  /\ frames >= 2
  /\ lastHit = NoHit
  /\ lastState = SCATTERED
  /\ mouse3D # <<0, 0, 0>>
  /\ \E i \in Ids :
       /\ DistanceTo(particles[i].currentPosition, mouse3D) < REPULSION_RADIUS
       /\ DistanceTo(particles[i].currentPosition, mouse3D) > MIN_LEN
       /\ instanceMatrix[i][1] = particles[i].currentPosition[1]
       /\ instanceMatrix[i][3] = particles[i].currentPosition[3]

\* ------------------------------------------------------------------ C16
\* C16: the store holds the particles 0..N-1, each under its id; id,
\* scatterPosition, treePosition, color, scale, rotationSpeed and type never
\* change; textPosition changes only in the font callback and
\* currentPosition only in a frame update.
C16_StoreInvariants ==
  [][/\ DOMAIN particles' = Ids
     /\ \A i \in Ids :
          /\ particles'[i].id = i
          /\ particles'[i].id = particles[i].id
          /\ particles'[i].scatterPosition = particles[i].scatterPosition
          /\ particles'[i].treePosition = particles[i].treePosition
          /\ particles'[i].color = particles[i].color
          /\ particles'[i].scale = particles[i].scale
          /\ particles'[i].rotationSpeed = particles[i].rotationSpeed
          /\ particles'[i].type = particles[i].type
          /\ particles'[i].textPosition # particles[i].textPosition =>
               (~fontLoaded /\ fontLoaded' /\ ~FrameUpdate)
          /\ particles'[i].currentPosition # particles[i].currentPosition =>
               (FrameUpdate /\ fontLoaded' = fontLoaded)
  ]_vars

\* The font callback and a frame update have both changed the store.
C16_Witness ==
  /\ fontLoaded
  /\ frames >= 1
  /\ DOMAIN particles = Ids
  /\ \E i \in Ids :
       /\ particles[i].textPosition # particles[i].scatterPosition
       /\ particles[i].currentPosition # particles[i].scatterPosition

\* ------------------------------------------------------------------ C17
\* C17: an update moves every particle from its stored position toward
\* treePosition in TREE, textPosition in TEXT and scatterPosition otherwise,
\* by the fraction deltaTime x 2.0 of the way in TEXT and deltaTime x 2.5 in
\* every other state, and writes a transform to every slot.
C17_TargetByState ==
  [][FrameUpdate =>
       /\ DOMAIN instanceMatrix' = Ids
       /\ \A i \in Ids :
            LET c == particles[i].currentPosition
                t == CASE appState = TREE_SHAPE -> particles[i].treePosition
                       [] appState = TEXT_SHAPE -> particles[i].textPosition
                       [] OTHER -> particles[i].scatterPosition
                tenths == IF appState = TEXT_SHAPE THEN 20 ELSE 25
            IN  /\ particles'[i].currentPosition =
                     [k \in 1..3 |-> c[k] + ((t[k] - c[k]) * lastDelta' * tenths) \div 100]
                /\ Len(instanceMatrix'[i]) = 3
  ]_vars

\* An update in TEXT, after the assignment, has moved a particle toward its
\* text point and written every slot.
C17_Witness ==
  /\ frames >= 1
  /\ lastState = TEXT_SHAPE
  /\ fontLoaded
  /\ \A i \in Ids : Len(instanceMatrix[i]) = 3
  /\ \E i \in Ids : particles[i].currentPosition # particles[i].scatterPosition

\* ------------------------------------------------------------------ C19
\* The displacement of a transform from the stored position, hover removed.
Displacement(i) ==
  LET cur == particles'[i].currentPosition
  IN  <<instanceMatrix'[i][1] - cur[1],
        instanceMatrix'[i][2] - cur[2] - HoverY(appState, lastSin'[i]),
        instanceMatrix'[i][3] - cur[3]>>

\* The push of 5.0 x (8.0 - d) / 8.0 along the direction from the pointer m
\* to the position pos at distance d.
ExpectedPush(pos, m, d) ==
  [k \in 1..3 |-> MulDiv(pos[k] - m[k], (5 * (8 * Unit - d) * Unit) \div (8 * Unit), d)]

\* C19 as stated: when repulsion applies, the transform is displaced by
\* 5.0 x (8.0 - d) / 8.0 along the direction from the pointer when
\* 0.01 <= d < 8.0, and by zero when d >= 8.0 or d < 0.01.
C19_PushFromOneHundredth ==
  [][(FrameUpdate /\ appState \in {SCATTERED, TEXT_SHAPE} /\ lastHit' # NoHit) =>
       \A i \in Ids :
         LET pos == particles'[i].currentPosition
             d == DistanceTo(pos, lastHit')
         IN  /\ (d >= Unit \div 100 /\ d < 8 * Unit) =>
                  Displacement(i) = ExpectedPush(pos, lastHit', d)
             /\ (d >= 8 * Unit \/ d < Unit \div 100) =>
                  Displacement(i) = <<0, 0, 0>>]_vars

\* C19 amended: when repulsion applies, the transform is displaced by
\* 5.0 x (8.0 - d) / 8.0 along the direction from the pointer when
\* 0.01 < d < 8.0, and by zero when d >= 8.0 or d <= 0.01; the push is zero
\* at d = 8.0 and 2.5 at d = 4.0.
C19_PushAboveOneHundredth ==
  [][(FrameUpdate /\ appState \in {SCATTERED, TEXT_SHAPE} /\ lastHit' # NoHit) =>
       \A i \in Ids :
         LET pos == particles'[i].currentPosition
             d == DistanceTo(pos, lastHit')
         IN  /\ (d > Unit \div 100 /\ d < 8 * Unit) =>
                  Displacement(i) = ExpectedPush(pos, lastHit', d)
             /\ (d >= 8 * Unit \/ d <= Unit \div 100) =>
                  Displacement(i) = <<0, 0, 0>>
             /\ (pos[2] = 0 /\ pos[3] = 0 /\ lastHit'[1] - pos[1] = 4 * Unit) =>
                  Displacement(i) = <<-(5 * Unit) \div 2, 0, 0>>]_vars

\* A particle at distance 4.0 from the pointer has been pushed by 2.5.
C19_Witness ==
  /\ frames >= 1
  /\ lastHit = <<4 * Unit, 0, 0>>
  /\ lastState = SCATTERED
  /\ \E i \in Ids :
       /\ particles[i].currentPosition = <<0, 0, 0>>
       /\ instanceMatrix[i][1] = -(5 * Unit) \div 2

\* ------------------------------------------------------------------ C18
\* C18: a call of predictWebcam that runs no detection, because the video
\* time equals the time of the last detection or the video or landmarker is
\* not ready, leaves the application state, the dwell timer and the last
\* classification unchanged, calls no setAppState, and schedules the next
\* call.
C18_SkipKeepsAndSchedules ==
  [][(ticks' = ticks + 1 /\ ~Processed) =>
       /\ appState' = appState
       /\ openHandStartTime' = openHandStartTime
       /\ lastClass' = lastClass
       /\ lastCall' = "none"
       /\ requestRef' = ticks'
       /\ rafPending' = {requestRef'}]_vars

\* The dwell time has passed since the timer was set by an OPEN frame, but
\* only calls without a detection came after it: the state is still
\* SCATTERED and the loop is scheduled.
C18_Witness ==
  /\ ticks >= 2
  /\ ~overridden
  /\ lastClass = "OPEN"
  /\ lastCall = "none"
  /\ openHandStartTime # 0
  /\ now - openHandStartTime > DWELL_MS
  /\ appState = SCATTERED
  /\ requestRef = ticks
  /\ requestRef \in rafPending

\* ------------------------------------------------------------------ C20
\* C20: at most one animation-frame request of predictWebcam is pending at
\* any time, and once the effect cleanup has run predictWebcam is never
\* called again, so the controller makes no further setAppState call.
C20_SingletonAndSilent ==
  [][/\ Cardinality(rafPending) <= 1
     /\ Cardinality(rafPending') <= 1
     /\ ~mounted => (ticks' = ticks /\ lastCall' = lastCall /\ rafPending' = {})]_vars

\* The loop ran, and the cleanup cancelled its pending request.
C20_Witness ==
  /\ ~mounted
  /\ ticks >= 2
  /\ requestRef = ticks
  /\ rafPending = {}
  /\ pc = "looping"

\* ------------------------------------------------------------------ C21
\* C21 as stated: whenever no play() promise is pending, isPlaying is true
\* exactly when the audio element is playing; the button never shows
\* 'playing' while the audio is paused or blocked.
C21_FlagTracksAudio ==
  audio # "starting" => (isPlaying <=> audio = "playing")
====
